---- MODULE Spec2Model ----
(***************************************************************************)
(* The encryption service of packages/server: key admission (generate,     *)
(* create), key selection (get), the credential cipher (encrypt, decrypt)  *)
(* and the resync engine, over the three stores it reads and writes: the   *)
(* encryption table, the credential table and the encryption_credential    *)
(* table.                                                                  *)
(***************************************************************************)
EXTENDS Integers, Sequences, FiniteSets, TLC

\* ------------------------------------------------------------------ bounds
\* The encryption table holds at most MaxKeys rows.
MaxKeys == 2
\* A (encryption, credential) pair starts with at most MaxRows association rows.
MaxRows == 1

\* ----------------------------------------------------------------- domains
\* Credential ids.
Creds == {"c1", "c2"}
\* Secrets an operator can put in FLOWISE_SECRETKEY_OVERWRITE or in the key file.
Secrets == {"s1", "s2"}
\* Outcomes of randomBytes(24).toString('base64').
RandomKeys == {"r1"}
KeyBytes == Secrets \cup RandomKeys
\* The empty string, which is also how an absent (undefined) string field reads
\* under the !x tests of the code.
Empty == ""
\* A missing optional argument.
None == [none |-> TRUE]
\* Processes that may run resync.
Procs == {1, 2}

\* JavaScript values a plaintext property can hold; "undefined" and "NaN" are the
\* two that JSON has no text for.
JsValues == {"x", "null", "undefined", "NaN"}
\* A plaintext object is a set of <<property, value>> pairs over one property.
PlainObjects == {{<<"a", v>>} : v \in JsValues}
\* The payload the credential owner stores in each credential.
CredentialPayload == {<<"a", "x">>}

\* ------------------------------------------------------------------ errors
\* An error is the sequence of its message parts; <<>> is "no error".
NoError == << >>
\* InternalFlowiseError(..., `Error: encryptionService.<fn> - ${getErrorMessage(error)}`)
Wrap(fn, error) == <<"Error: encryptionService." , fn>> \o error
ErrNoKey == <<"No encryption key available">>
ErrMultiple == <<"credentialId have multiple encryptions">>
ErrLost == <<"credentialId's encryption is lost">>
ErrNoName == <<"Please provide a name for this encryption.">>
ErrCipher == <<"Malformed UTF-8 data or JSON">>
\* What a query of the store throws when the store fails.
ErrStore == <<"store failure">>

\* ------------------------------------------------------------------ cipher
\* JSON.stringify(plainDataObj): the text lists the properties one after the
\* other; a property holding undefined is left out and NaN is written as null.
RECURSIVE JSONtext(_)
JSONtext(pairs) ==
    IF pairs = {} THEN << >>
    ELSE LET pv == CHOOSE q \in pairs : TRUE
         IN  <<pv>> \o JSONtext(pairs \ {pv})
JSONstringify(obj) ==
    JSONtext({<<pv[1], IF pv[2] = "NaN" THEN "null" ELSE pv[2]>> :
                 pv \in {q \in obj : q[2] # "undefined"}})
\* JSON.parse(text): the object holding the properties the text lists.
JSONparse(text) == {text[i] : i \in 1..Len(text)}
\* AES.encrypt(text, key).toString(): the ciphertext is bound to the key bytes.
AESencrypt(text, key) == [key |-> key, text |-> text]
\* A cipher that yields the text under any key.
AESdecrypt_AnyKey(data, key) == [ok |-> TRUE, text |-> data.text]
\* AES.decrypt(data, key).toString(enc.Utf8) followed by JSON.parse: under other
\* key bytes the bytes that come out are no JSON text and the parse throws.
AESdecrypt(data, key) ==
    IF data.key = key THEN [ok |-> TRUE, text |-> data.text]
    ELSE [ok |-> FALSE, text |-> << >>]

\* ------------------------------------------------------------------- state
VARIABLES
    encryption,            \* the encryption table: rows in order of insertion
    scan,                  \* the order in which the store returns the rows of encryption
    now,                   \* the store's clock, which stamps updatedDate
    credential,            \* the credential table: id -> encryptedData, isEncryptionKeyLost
    encryptionCredential,  \* the encryption_credential table: rows per <<encryptionId, credentialId>>
    rs,                    \* each process's position in resync and its local variables
    marked,                \* the credentials the last finished resync left lost
    last                   \* the call that returned last: its name, arguments and result

vars == <<encryption, scan, now, credential, encryptionCredential, rs, marked, last>>

KeyIds == 1..MaxKeys
Pairs == KeyIds \X Creds

\* All orders of a set of ids, as sequences.
Orders(S) ==
    {o \in [1..Cardinality(S) -> S] : \A i, j \in 1..Cardinality(S) : i # j => o[i] # o[j]}
Range(seq) == {seq[i] : i \in 1..Len(seq)}
\* Repository.find(): the rows in the store's order.
Find(rows, order) == [i \in 1..Len(order) |-> rows[order[i]]]
\* Position of the row with the given id in the store's order.
ScanPos(order, id) == CHOOSE i \in 1..Len(order) : order[i] = id

\* ------------------------------------------------------------- the services
\* encryptionCredential.findByCredentialId(credentialId): the rows of the credential.
RECURSIVE SumRows(_, _, _)
SumRows(ec, c, ks) ==
    IF ks = {} THEN 0
    ELSE LET k == CHOOSE x \in ks : TRUE IN ec[<<k, c>>] + SumRows(ec, c, ks \ {k})
findByCredentialId(ec, c) == SumRows(ec, c, KeyIds)
\* encryptionCredential.create(encryptionId, credentialId): one more row.
ecCreate(ec, k, c) == [ec EXCEPT ![<<k, c>>] = @ + 1]
\* encryptionCredential.updateEncryptionId(encryptionId, credentialId): every row of
\* the credential now names encryptionId.
updateEncryptionId(ec, k, c) ==
    [pr \in Pairs |->
        IF pr[2] # c THEN ec[pr]
        ELSE IF pr[1] = k THEN findByCredentialId(ec, c) ELSE 0]
\* encryptionCredential.deleteByEncryptionId(encryptionId, credentialId): the rows
\* of that pair are removed.
deleteByEncryptionId(ec, k, c) == [ec EXCEPT ![<<k, c>>] = 0]
\* credentials.updateIsEncryptionKeyLost(credentialId, flag)
updateIsEncryptionKeyLost(cr, c, flag) == [cr EXCEPT ![c].isEncryptionKeyLost = flag]

\* ------------------------------------------------------------------ create
\* create(encryption) whose save() lands on the row stored last.
create_SaveOverLast(rows, partial, random, date) ==
    LET key == IF partial.encryptionKey = Empty THEN random ELSE partial.encryptionKey
        id == IF Len(rows) = 0 THEN 1 ELSE Len(rows)
        row == [id |-> id, name |-> partial.name, encryptionKey |-> key, updatedDate |-> date]
    IN  IF partial.name = Empty
        THEN [err |-> Wrap("create", ErrNoName), rows |-> rows, ret |-> None]
        ELSE [err |-> NoError,
              rows |-> IF Len(rows) = 0 THEN <<row>> ELSE [rows EXCEPT ![id] = row],
              ret |-> row]
\* create(encryption) without the test of step 2.
create_NoNameCheck(rows, partial, random, date) ==
    LET key == IF partial.encryptionKey = Empty THEN random ELSE partial.encryptionKey
        row == [id |-> Len(rows) + 1, name |-> partial.name,
                encryptionKey |-> key, updatedDate |-> date]
    IN  [err |-> NoError, rows |-> Append(rows, row), ret |-> row]
\* create(encryption): partial.name and partial.encryptionKey are Empty when absent;
\* random is what randomBytes returns, date what the store's clock reads on save.
create(rows, partial, random, date) ==
    LET key == IF partial.encryptionKey = Empty THEN random ELSE partial.encryptionKey
    IN  IF partial.name = Empty
        THEN [err |-> Wrap("create", ErrNoName), rows |-> rows, ret |-> None]
        ELSE LET row == [id |-> Len(rows) + 1, name |-> partial.name,
                         encryptionKey |-> key, updatedDate |-> date]
             IN  [err |-> NoError, rows |-> Append(rows, row), ret |-> row]

\* --------------------------------------------------------------------- get
\* The same query without its order: the first row of the store's order.
Latest_Unordered(rows, order) ==
    [id |-> rows[order[1]].id, encryptionKey |-> rows[order[1]].encryptionKey]
\* find({select: {id, encryptionKey}, order: {updatedDate: 'DESC'}})[0]: the row
\* with the greatest updatedDate, the first in the store's order among equals.
Latest(rows, order) ==
    LET top == {r \in Range(rows) : \A q \in Range(rows) : q.updatedDate <= r.updatedDate}
        r == CHOOSE x \in top : \A y \in top : ScanPos(order, x.id) <= ScanPos(order, y.id)
    IN  [id |-> r.id, encryptionKey |-> r.encryptionKey]
\* The rows of encryption joined to the credential through encryption_credential;
\* getMany() gives each encryption row once.
Joined(rows, ec, cr, credentialId) ==
    {r \in Range(rows) : credentialId \in DOMAIN cr /\ ec[<<r.id, credentialId>>] > 0}
\* get(credential?) returning the first of several joined rows.
get_PicksOne(rows, order, ec, cr, cred) ==
    IF cred = None
    THEN IF Len(rows) # 0
         THEN [err |-> NoError, ret |-> Latest(rows, order)]
         ELSE [err |-> Wrap("get", ErrNoKey), ret |-> None]
    ELSE LET dbResponse == Joined(rows, ec, cr, cred.id)
         IN  IF Cardinality(dbResponse) >= 1
             THEN [err |-> NoError, ret |-> CHOOSE r \in dbResponse : TRUE]
             ELSE [err |-> Wrap("get", ErrLost), ret |-> None]
\* get(credential?)
get(rows, order, ec, cr, cred) ==
    IF cred = None
    THEN IF Len(rows) # 0
         THEN [err |-> NoError, ret |-> Latest(rows, order)]
         ELSE [err |-> Wrap("get", ErrNoKey), ret |-> None]
    ELSE LET dbResponse == Joined(rows, ec, cr, cred.id)
         IN  IF Cardinality(dbResponse) = 1
             THEN [err |-> NoError, ret |-> CHOOSE r \in dbResponse : TRUE]
             ELSE IF Cardinality(dbResponse) > 1
             THEN [err |-> Wrap("get", ErrMultiple), ret |-> None]
             ELSE [err |-> Wrap("get", ErrLost), ret |-> None]

\* ------------------------------------------------------- encrypt, decrypt
\* encrypt(plainDataObj) taking the key that was stored first.
encrypt_FirstStored(rows, order, ec, cr, plainDataObj) ==
    IF Len(rows) = 0
    THEN [err |-> Wrap("encrypt", Wrap("get", ErrNoKey)), ret |-> None]
    ELSE [err |-> NoError,
          ret |-> [encryption |-> [id |-> rows[1].id, encryptionKey |-> rows[1].encryptionKey],
                   encryptedData |-> AESencrypt(JSONstringify(plainDataObj),
                                                rows[1].encryptionKey)]]
\* encrypt(plainDataObj)
encrypt(rows, order, ec, cr, plainDataObj) ==
    LET g == get(rows, order, ec, cr, None)
    IN  IF g.err # NoError
        THEN [err |-> Wrap("encrypt", g.err), ret |-> None]
        ELSE [err |-> NoError,
              ret |-> [encryption |-> g.ret,
                       encryptedData |-> AESencrypt(JSONstringify(plainDataObj),
                                                    g.ret.encryptionKey)]]
\* decrypt(credential, encryption?)
decrypt(rows, order, ec, cr, cred, enc) ==
    LET g == IF enc = None THEN get(rows, order, ec, cr, cred)
             ELSE [err |-> NoError, ret |-> enc]
    IN  IF g.err # NoError
        THEN [err |-> Wrap("decrypt", g.err), ret |-> None]
        ELSE LET d == AESdecrypt(cred.encryptedData, g.ret.encryptionKey)
             IN  IF ~d.ok
                 THEN [err |-> Wrap("decrypt", ErrCipher), ret |-> None]
                 ELSE [err |-> NoError,
                       ret |-> [encryption |-> g.ret, plainDataObj |-> JSONparse(d.text)]]

\* ---------------------------------------------------------------- generate
\* insertLegacyEncryption without the test for a key that is stored already.
insertLegacyEncryption_NoDedup(st, encryptionKeys, SECRETKEY, date) ==
    IF SECRETKEY # Empty
    THEN [rows |-> Append(st.rows, [id |-> Len(st.rows) + 1, name |-> ToString(st.nameCounter + 1),
                                    encryptionKey |-> SECRETKEY, updatedDate |-> date]),
          nameCounter |-> st.nameCounter + 1]
    ELSE st
\* insertLegacyEncryption naming the row after the number of keys read in step 3.
insertLegacyEncryption_StaleName(st, encryptionKeys, SECRETKEY, date) ==
    IF SECRETKEY # Empty /\ SECRETKEY \notin encryptionKeys
    THEN [rows |-> create(st.rows,
                          [name |-> ToString(Cardinality(encryptionKeys) + 1),
                           encryptionKey |-> SECRETKEY],
                          Empty, date).rows,
          nameCounter |-> st.nameCounter + 1]
    ELSE st
\* insertLegacyEncryption(SECRETKEY) of generate: st is [rows, nameCounter];
\* encryptionKeys is the list read in step 3, before either insertion.
insertLegacyEncryption(st, encryptionKeys, SECRETKEY, date) ==
    IF SECRETKEY # Empty /\ SECRETKEY \notin encryptionKeys
    THEN [rows |-> create(st.rows,
                          [name |-> ToString(st.nameCounter + 1), encryptionKey |-> SECRETKEY],
                          Empty, date).rows,
          nameCounter |-> st.nameCounter + 1]
    ELSE st
\* Steps 1 to 4 of generate(): overwrite is FLOWISE_SECRETKEY_OVERWRITE, fromPath the
\* content of the key file (Empty when it cannot be read); dates are the clock
\* readings of the two saves.
admit(rows, overwrite, fromPath, dates) ==
    LET encryptionKeys == {r.encryptionKey : r \in Range(rows)}
        st0 == [rows |-> rows, nameCounter |-> Len(rows)]
        st1 == insertLegacyEncryption(st0, encryptionKeys, fromPath, dates[1])
    IN  insertLegacyEncryption(st1, encryptionKeys, overwrite,
                               IF st1 = st0 THEN dates[1] ELSE dates[2])
\* generate() without step 6.
generate_NoFreshKey(rows, order, ec, cr, overwrite, fromPath, random, dates) ==
    LET st == admit(rows, overwrite, fromPath, dates)
        g == get(st.rows, order, ec, cr, None)
    IN  [err |-> g.err, rows |-> st.rows, ret |-> g.ret]
\* generate(): order is the store's order of the rows once steps 1 to 4 are done.
generate(rows, order, ec, cr, overwrite, fromPath, random, dates) ==
    LET st == admit(rows, overwrite, fromPath, dates)
        g == get(st.rows, order, ec, cr, None)
    IN  IF g.err = NoError
        THEN [err |-> NoError, rows |-> st.rows, ret |-> g.ret]
        ELSE LET c == create(st.rows, [name |-> ToString(st.nameCounter + 1),
                                       encryptionKey |-> Empty], random, dates[1])
             IN  IF c.err # NoError
                 THEN [err |-> Wrap("generate", c.err), rows |-> c.rows, ret |-> None]
                 ELSE [err |-> NoError, rows |-> c.rows, ret |-> c.ret]

\* -------------------------------------------------------------------- init
\* init() calling resync() whatever generate() did.
init_ResyncAnyway(g) ==
    [err |-> IF g.err # NoError THEN Wrap("init", g.err) ELSE NoError, resync |-> TRUE]
\* init() once generate() of step 1 is over with result g: the error of generate()
\* leaves through the catch and step 2 is not reached; resync tells whether
\* resync() is called.
init(g) ==
    IF g.err # NoError
    THEN [err |-> Wrap("init", g.err), resync |-> FALSE]
    ELSE [err |-> NoError, resync |-> TRUE]

\* ------------------------------------------------------------------ resync
\* Step 4b without its insert branch.
associate_NoInsert(ec, dbResponse, k, c) ==
    IF dbResponse = 1 THEN updateEncryptionId(ec, k, c) ELSE ec
\* Step 4b inserting a row also when the credential has one.
associate_InsertAgain(ec, dbResponse, k, c) ==
    IF dbResponse <= 1 THEN ecCreate(ec, k, c) ELSE ec
\* Step 4b of the decrypted branch: insert when the credential has no row, update
\* when it has one, and nothing otherwise.
associate(ec, dbResponse, k, c) ==
    IF dbResponse = 0 THEN ecCreate(ec, k, c)
    ELSE IF dbResponse = 1 THEN updateEncryptionId(ec, k, c)
    ELSE ec
\* A process that is not running resync.
IdleProc ==
    [pc |-> "idle", allEncryption |-> << >>, allCredential |-> << >>,
     ci |-> 1, ki |-> 1, dbResponse |-> 0]
\* The credential entity find() returns for a row of the credential table.
Entity(cr, c) == [id |-> c, encryptedData |-> cr[c].encryptedData]
\* The loops of resync without the break of step 4d.
AfterTrial_NoBreak(r, found) ==
    IF r.ki < Len(r.allEncryption)
    THEN [r EXCEPT !.pc = "trial", !.ki = @ + 1]
    ELSE IF r.ci < Len(r.allCredential)
    THEN [r EXCEPT !.pc = "trial", !.ci = @ + 1, !.ki = 1]
    ELSE IdleProc
\* The loops of resync: where the process goes once the trial of key ki on
\* credential ci is over; found is the break of step 4d.
AfterTrial(r, found) ==
    IF ~found /\ r.ki < Len(r.allEncryption)
    THEN [r EXCEPT !.pc = "trial", !.ki = @ + 1]
    ELSE IF r.ci < Len(r.allCredential)
    THEN [r EXCEPT !.pc = "trial", !.ci = @ + 1, !.ki = 1]
    ELSE IdleProc
\* Whether the call of the process has returned.
Returned(r) == r.pc = "idle"
\* Nobody is inside resync: the calls of the service do not overlap.
Quiet == \A p \in Procs : rs[p].pc = "idle"
\* The keys of the store under which the ciphertext of a credential decrypts.
Decrypting(rows, cr, c) ==
    {r \in Range(rows) : AESdecrypt(cr[c].encryptedData, r.encryptionKey).ok}
\* The credentials a finished resync leaves flagged lost and without a row while
\* no key of the store decrypts them.
LeftLost(rows, ec, cr) ==
    {c \in Creds : /\ cr[c].isEncryptionKeyLost
                   /\ findByCredentialId(ec, c) = 0
                   /\ Decrypting(rows, cr, c) = {}}

\* ----------------------------------------------------------------- actions
\* What a call leaves in last.
Call(op, arg, res, note) == [op |-> op, arg |-> arg, err |-> res.err, ret |-> res.ret, note |-> note]
\* The clock readings of two saves in a row: the clock moves on between saves.
Readings == {<<now + 1, now + 2>>}
\* The date of the row saved last, the clock unchanged when no row was saved.
ClockAfter(rows) ==
    IF Len(rows) > Len(encryption) THEN rows[Len(rows)].updatedDate ELSE now
\* The orders the store may return its rows in once rows were added.
OrdersAfter(rows) ==
    IF Len(rows) > Len(encryption) THEN Orders(1..Len(rows)) ELSE {scan}

\* generate() with the given environment.
Generate(overwrite, fromPath) ==
    /\ Quiet
    /\ \E random \in RandomKeys, dates \in Readings :
         LET n == Len(admit(encryption, overwrite, fromPath, dates).rows)
         IN  /\ (IF n = 0 THEN 1 ELSE n) <= MaxKeys
             /\ \E order \in OrdersAfter(admit(encryption, overwrite, fromPath, dates).rows) :
                  LET res == generate(encryption, order, encryptionCredential, credential,
                                      overwrite, fromPath, random, dates)
                  IN  /\ encryption' = res.rows
                      /\ scan' = IF n = 0 /\ res.err = NoError THEN <<1>> ELSE order
                      /\ now' = ClockAfter(res.rows)
                      /\ last' = Call("generate", <<overwrite, fromPath>>, res,
                                      [added |-> Len(res.rows) - Len(encryption),
                                       repeat |-> /\ last.op = "generate"
                                                  /\ last.arg = <<overwrite, fromPath>>])
    /\ UNCHANGED <<credential, encryptionCredential, rs, marked>>

\* create(encryption) with the given partial row.
Create(partial) ==
    /\ Quiet
    /\ partial.name # Empty => Len(encryption) < MaxKeys
    /\ \E random \in RandomKeys, dates \in Readings :
         LET res == create(encryption, partial, random, dates[1])
         IN  /\ encryption' = res.rows
             /\ \E order \in OrdersAfter(res.rows) : scan' = order
             /\ now' = ClockAfter(res.rows)
             /\ last' = Call("create", partial, res, None)
    /\ UNCHANGED <<credential, encryptionCredential, rs, marked>>

\* get() and get(credential) for a stored credential.
Get(cred) ==
    /\ Quiet
    /\ last' = Call("get", cred,
                    get(encryption, scan, encryptionCredential, credential, cred), None)
    /\ UNCHANGED <<encryption, scan, now, credential, encryptionCredential, rs, marked>>

\* encrypt(plainDataObj)
Encrypt(plainDataObj) ==
    /\ Quiet
    /\ last' = Call("encrypt", plainDataObj,
                    encrypt(encryption, scan, encryptionCredential, credential, plainDataObj),
                    None)
    /\ UNCHANGED <<encryption, scan, now, credential, encryptionCredential, rs, marked>>

\* decrypt(credential, encryption?) for a stored credential.
Decrypt(c, enc) ==
    /\ Quiet
    /\ last' = Call("decrypt", [credential |-> Entity(credential, c), encryption |-> enc],
                    decrypt(encryption, scan, encryptionCredential, credential,
                            Entity(credential, c), enc),
                    None)
    /\ UNCHANGED <<encryption, scan, now, credential, encryptionCredential, rs, marked>>

\* decrypt(credential, encryption) for a credential that holds the ciphertext the
\* encrypt call before it returned and is not stored yet.
DecryptEncrypted(enc) ==
    /\ Quiet
    /\ last.op = "encrypt" /\ last.err = NoError
    /\ LET cred == [id |-> "new", encryptedData |-> last.ret.encryptedData]
       IN  last' = Call("decrypt", [credential |-> cred, encryption |-> enc],
                        decrypt(encryption, scan, encryptionCredential, credential, cred, enc),
                        [plainDataObj |-> last.arg, encryption |-> last.ret.encryption])
    /\ UNCHANGED <<encryption, scan, now, credential, encryptionCredential, rs, marked>>

\* The owner of a credential saves its payload: encryptedData is what encrypt returns.
UpdateCredential(c) ==
    /\ Quiet
    /\ LET res == encrypt(encryption, scan, encryptionCredential, credential, CredentialPayload)
       IN  /\ credential' = IF res.err = NoError
                            THEN [credential EXCEPT ![c].encryptedData = res.ret.encryptedData]
                            ELSE credential
           /\ last' = Call("updateCredential", c, res, None)
    /\ UNCHANGED <<encryption, scan, now, encryptionCredential, rs, marked>>

\* init(), step 1: generate() with the given environment; fault is whether the
\* store fails at the query of step 3 of generate(), before any row is written.
InitGenerate(p, overwrite, fromPath, fault) ==
    /\ Quiet
    /\ \E random \in RandomKeys, dates \in Readings :
         LET rows == IF fault THEN encryption
                     ELSE admit(encryption, overwrite, fromPath, dates).rows
             n == Len(rows)
         IN  /\ (IF n = 0 /\ ~fault THEN 1 ELSE n) <= MaxKeys
             /\ \E order \in OrdersAfter(rows) :
                  LET g == IF fault
                           THEN [err |-> Wrap("generate", ErrStore), rows |-> encryption,
                                 ret |-> None]
                           ELSE generate(encryption, order, encryptionCredential, credential,
                                         overwrite, fromPath, random, dates)
                      i == init(g)
                  IN  /\ encryption' = g.rows
                      /\ scan' = IF n = 0 /\ g.err = NoError THEN <<1>> ELSE order
                      /\ now' = ClockAfter(g.rows)
                      /\ rs' = IF i.resync THEN [rs EXCEPT ![p].pc = "initResync"] ELSE rs
                      /\ last' = [op |-> "init", arg |-> <<overwrite, fromPath>>,
                                  err |-> i.err,
                                  ret |-> IF i.resync THEN "generated" ELSE "failed",
                                  note |-> [generate |-> g.err, resync |-> NoError,
                                            before |-> Len(encryption), seen |-> -1]]
    /\ UNCHANGED <<credential, encryptionCredential, marked>>

\* init(), step 2: resync() is called and makes its first find(); fault is whether
\* the store fails at that query, whose error leaves resync() and init() wrapped.
InitResync(p, fault) ==
    /\ rs[p].pc = "initResync"
    /\ IF fault
       THEN /\ rs' = [rs EXCEPT ![p] = IdleProc]
            /\ last' = [last EXCEPT !.err = Wrap("init", Wrap("resync", ErrStore)),
                                    !.ret = "failed",
                                    !.note.resync = Wrap("resync", ErrStore)]
       ELSE /\ rs' = [rs EXCEPT ![p] = [IdleProc EXCEPT !.pc = "findCredential",
                                           !.allEncryption = Find(encryption, scan)]]
            /\ last' = [last EXCEPT !.ret = "running", !.note.seen = Len(encryption)]
    /\ UNCHANGED <<encryption, scan, now, credential, encryptionCredential, marked>>

\* resync(), step 1: the first find(). The note keeps the tables as the call found
\* them, or as the call it overlaps found them, and whether it overlaps a call.
ResyncFindEncryption(p) ==
    /\ rs[p].pc = "idle"
    /\ rs' = [rs EXCEPT ![p] = [IdleProc EXCEPT !.pc = "findCredential",
                                               !.allEncryption = Find(encryption, scan)]]
    /\ last' = [op |-> "resync", arg |-> None, err |-> NoError, ret |-> "running",
                note |-> [pre |-> IF ~Quiet /\ last.op = "resync" THEN last.note.pre
                                  ELSE <<encryptionCredential, credential>>,
                          again |-> last.op = "resync" /\ last.ret = "done",
                          marked |-> marked,
                          overlap |-> ~Quiet]]
    /\ UNCHANGED <<encryption, scan, now, credential, encryptionCredential, marked>>

\* What the store operation that ends a trial leaves: the process moves on, and
\* when the loops are over resync returns.
EndTrial(p, found, ec, cr) ==
    LET r == AfterTrial(rs[p], found)
    IN  /\ rs' = [rs EXCEPT ![p] = r]
        /\ encryptionCredential' = ec
        /\ credential' = cr
        /\ IF Returned(r)
           THEN /\ last' = [last EXCEPT !.ret = "done"]
                /\ marked' = LeftLost(encryption, ec, cr)
           ELSE UNCHANGED <<last, marked>>

\* resync(), step 1: the second find(); the loops start, or are over at once when
\* one of the tables is empty.
ResyncFindCredential(p) ==
    /\ rs[p].pc = "findCredential"
    /\ \E order \in Orders(Creds) :
         LET r == [rs[p] EXCEPT !.allCredential = [i \in 1..Len(order) |-> Entity(credential, order[i])]]
         IN  IF Len(r.allEncryption) = 0 \/ Len(r.allCredential) = 0
             THEN /\ rs' = [rs EXCEPT ![p] = IdleProc]
                  /\ last' = [last EXCEPT !.ret = "done"]
                  /\ marked' = LeftLost(encryption, encryptionCredential, credential)
             ELSE /\ rs' = [rs EXCEPT ![p] = [r EXCEPT !.pc = "trial"]]
                  /\ UNCHANGED <<last, marked>>
    /\ UNCHANGED <<encryption, scan, now, credential, encryptionCredential>>

\* resync(), step 3 and the first store operation after it: step 4a of either branch.
ResyncTrial(p) ==
    /\ rs[p].pc = "trial"
    /\ LET r == rs[p]
           cred == r.allCredential[r.ci]
           enc == r.allEncryption[r.ki]
           decrypted == decrypt(encryption, scan, encryptionCredential, credential,
                                cred, enc).err = NoError
       IN  IF decrypted
           THEN /\ rs' = [rs EXCEPT ![p] = [r EXCEPT !.pc = "write",
                               !.dbResponse = findByCredentialId(encryptionCredential, cred.id)]]
                /\ UNCHANGED credential
           ELSE /\ rs' = [rs EXCEPT ![p] = [r EXCEPT !.pc = "delete"]]
                /\ credential' = updateIsEncryptionKeyLost(credential, cred.id, TRUE)
    /\ UNCHANGED <<encryption, scan, now, encryptionCredential, marked, last>>

\* resync(), step 4b of the decrypted branch.
ResyncWrite(p) ==
    /\ rs[p].pc = "write"
    /\ LET r == rs[p]
           cred == r.allCredential[r.ci]
           enc == r.allEncryption[r.ki]
       IN  encryptionCredential' = associate(encryptionCredential, r.dbResponse, enc.id, cred.id)
    /\ rs' = [rs EXCEPT ![p].pc = "clearLost"]
    /\ UNCHANGED <<encryption, scan, now, credential, marked, last>>

\* resync(), steps 4c and 4d of the decrypted branch.
ResyncClearLost(p) ==
    /\ rs[p].pc = "clearLost"
    /\ EndTrial(p, TRUE, encryptionCredential,
                updateIsEncryptionKeyLost(credential, rs[p].allCredential[rs[p].ci].id, FALSE))
    /\ UNCHANGED <<encryption, scan, now>>

\* resync(), step 4b of the other branch.
ResyncDelete(p) ==
    /\ rs[p].pc = "delete"
    /\ EndTrial(p, FALSE,
                deleteByEncryptionId(encryptionCredential, rs[p].allEncryption[rs[p].ki].id,
                                     rs[p].allCredential[rs[p].ci].id),
                credential)
    /\ UNCHANGED <<encryption, scan, now>>

\* resync() stopped between two of its store operations: the operation it awaits
\* throws, or the deadline of the caller ends the call, and the error leaves
\* through the catch of resync(); what the call wrote so far stays.
ResyncStop(p) ==
    /\ rs[p].pc \notin {"idle", "initResync"}
    /\ rs' = [rs EXCEPT ![p] = IdleProc]
    /\ last' = [last EXCEPT !.err = IF last.op = "init"
                                    THEN Wrap("init", Wrap("resync", ErrStore))
                                    ELSE Wrap("resync", ErrStore),
                            !.ret = "stopped"]
    /\ UNCHANGED <<encryption, scan, now, credential, encryptionCredential, marked>>

\* ------------------------------------------------------------ specifications
\* Ciphertexts the credential table may hold when the service starts: the payloads
\* under the secrets of the operator.
Ciphertexts == {AESencrypt(JSONstringify(CredentialPayload), k) : k \in Secrets}
NoCall == [op |-> "none", arg |-> None, err |-> NoError, ret |-> None, note |-> None]
\* A server that starts on credentials of an earlier version: no key is stored yet,
\* no credential has a row in encryption_credential and no flag is set.
Init ==
    /\ encryption = << >>
    /\ scan = << >>
    /\ now = 0
    /\ credential \in [Creds -> [encryptedData : Ciphertexts, isEncryptionKeyLost : {FALSE}]]
    /\ encryptionCredential = [pr \in Pairs |-> 0]
    /\ rs = [p \in Procs |-> IdleProc]
    /\ marked = {}
    /\ last = NoCall

\* Key stores of n rows as generate() leaves them when it admits the secrets of the
\* operator, with the given dates.
Stores(n, dates) ==
    {rows \in [1..n -> [id : 1..n, name : {ToString(i) : i \in 1..n},
                        encryptionKey : Secrets, updatedDate : dates]] :
        \A i \in 1..n : rows[i].id = i /\ rows[i].name = ToString(i)}
\* Rows of encryption_credential between n stored keys and the credentials.
Associations(n) ==
    {ec \in [Pairs -> 0..MaxRows] : \A pr \in Pairs : pr[1] > n => ec[pr] = 0}

\* The tables as earlier runs may have left them: any keys, any flags, and any rows
\* between the stored keys and the credentials.
InitAny ==
    /\ \E n \in 0..MaxKeys :
         /\ encryption \in {rows \in Stores(n, 1..n) : \A i \in 1..n : rows[i].updatedDate = i}
         /\ scan \in Orders(1..n)
         /\ now = n
         /\ encryptionCredential \in Associations(n)
    /\ credential \in [Creds -> [encryptedData : Ciphertexts, isEncryptionKeyLost : BOOLEAN]]
    /\ rs = [p \in Procs |-> IdleProc]
    /\ marked = {}
    /\ last = NoCall

\* The tables as the queries of the service may find them: any keys with any dates,
\* equal dates among them, and any rows.
InitCalls ==
    /\ \E n \in 0..MaxKeys :
         /\ encryption \in Stores(n, 1..n)
         /\ scan \in Orders(1..n)
         /\ now = n
         /\ encryptionCredential \in Associations(n)
    /\ credential \in [Creds -> [encryptedData : Ciphertexts, isEncryptionKeyLost : {FALSE}]]
    /\ rs = [p \in Procs |-> IdleProc]
    /\ marked = {}
    /\ last = NoCall

\* The processes that call resync when the calls are serialized.
Serial == {1}
Partials == [name : {Empty, "key"}, encryptionKey : KeyBytes \cup {Empty}]

\* The steps of a resync() call that overlaps no other call.
ResyncStep ==
    \/ \E p \in Serial : /\ Quiet
                         /\ ResyncFindEncryption(p)
    \/ \E p \in Serial : ResyncFindCredential(p)
    \/ \E p \in Serial : ResyncTrial(p)
    \/ \E p \in Serial : ResyncWrite(p)
    \/ \E p \in Serial : ResyncClearLost(p)
    \/ \E p \in Serial : ResyncDelete(p)

Next ==
    \/ \E overwrite, fromPath \in Secrets \cup {Empty} : Generate(overwrite, fromPath)
    \/ \E partial \in Partials : Create(partial)
    \/ \E cred \in {None} \cup {Entity(credential, c) : c \in Creds} : Get(cred)
    \/ \E plainDataObj \in PlainObjects : Encrypt(plainDataObj)
    \/ \E c \in Creds, enc \in {None} \cup Range(encryption) : Decrypt(c, enc)
    \/ \E enc \in Range(encryption) : DecryptEncrypted(enc)
    \/ \E c \in Creds : UpdateCredential(c)
    \/ ResyncStep

\* Key admission and resync on tables in any state.
NextRepair ==
    \/ \E overwrite, fromPath \in Secrets \cup {Empty} : Generate(overwrite, fromPath)
    \/ \E partial \in Partials : Create(partial)
    \/ ResyncStep

\* The queries of the service: they write to no table.
NextCalls ==
    \/ \E cred \in {None} \cup {Entity(credential, c) : c \in Creds} : Get(cred)
    \/ \E plainDataObj \in PlainObjects : Encrypt(plainDataObj)
    \/ \E c \in Creds, enc \in {None} \cup Range(encryption) : Decrypt(c, enc)
    \/ \E enc \in Range(encryption) : DecryptEncrypted(enc)

\* The steps of an init() call up to the loops of its resync().
InitStep ==
    \/ \E p \in Serial, overwrite, fromPath \in Secrets \cup {Empty}, fault \in BOOLEAN :
          InitGenerate(p, overwrite, fromPath, fault)
    \/ \E p \in Serial, fault \in BOOLEAN : InitResync(p, fault)

\* Startup and resync on tables in any state.
NextInit ==
    \/ InitStep
    \/ ResyncStep

\* The steps of resync() calls that nobody serializes: each process calls resync()
\* whenever it likes and the store operations of the calls interleave.
ResyncConcurrent ==
    \/ \E p \in Procs : ResyncFindEncryption(p)
    \/ \E p \in Procs : ResyncFindCredential(p)
    \/ \E p \in Procs : ResyncTrial(p)
    \/ \E p \in Procs : ResyncWrite(p)
    \/ \E p \in Procs : ResyncClearLost(p)
    \/ \E p \in Procs : ResyncDelete(p)

\* Key admission and resync() calls that may overlap.
NextConcurrent ==
    \/ \E overwrite, fromPath \in Secrets \cup {Empty} : Generate(overwrite, fromPath)
    \/ ResyncConcurrent

\* Every operation the service exports, startup included.
NextAll ==
    \/ Next
    \/ InitStep

\* Calls that do not overlap, resync() calls that are stopped partway and
\* credentials saved between the calls.
NextSerial ==
    \/ \E overwrite, fromPath \in Secrets \cup {Empty} : Generate(overwrite, fromPath)
    \/ \E partial \in Partials : Create(partial)
    \/ \E c \in Creds : UpdateCredential(c)
    \/ ResyncStep
    \/ \E p \in Serial : ResyncStop(p)

Spec == Init /\ [][Next]_vars
SpecRepair == InitAny /\ [][NextRepair]_vars
SpecCalls == InitCalls /\ [][NextCalls]_vars
SpecInit == InitAny /\ [][NextInit]_vars
SpecConcurrent == Init /\ [][NextConcurrent]_vars
SpecAll == Init /\ [][NextAll]_vars
SpecSerial == Init /\ [][NextSerial]_vars

\* -------------------------------------------------------------- properties
\* A resync() call has returned and no call was made since.
ResyncDone == last.op = "resync" /\ last.ret = "done"
\* The stored keys that have a row with the credential.
KeysOf(c) == {r \in Range(encryption) : encryptionCredential[<<r.id, c>>] > 0}
\* The number of rows of the credential.
NumRows(c) == findByCredentialId(encryptionCredential, c)
\* The stored keys whose key bytes are those the credential was encrypted with.
KeysFor(c) == {r \in Range(encryption) : r.encryptionKey = credential[c].encryptedData.key}

\* C1: when resync() returns, every credential encrypted with a stored key has
\* exactly one row, the row names such a key, and its isEncryptionKeyLost is false.
C1_ResyncConvergence ==
    ResyncDone =>
        \A c \in Creds :
            KeysFor(c) # {} =>
                /\ NumRows(c) = 1
                /\ KeysOf(c) \subseteq KeysFor(c)
                /\ ~credential[c].isEncryptionKeyLost

\* C2: when resync() returns, every credential encrypted with a key that is not
\* stored has no row and its isEncryptionKeyLost is true.
C2_LostDetection ==
    ResyncDone =>
        \A c \in Creds :
            KeysFor(c) = {} => NumRows(c) = 0 /\ credential[c].isEncryptionKeyLost

\* C3: a credential that a resync() left lost and without a row, and whose key is
\* stored when a later resync() returns, has then exactly one row, naming that key,
\* and its isEncryptionKeyLost is false.
C3_ReResyncRecovery ==
    ResyncDone =>
        \A c \in last.note.marked :
            KeysFor(c) # {} =>
                /\ NumRows(c) = 1
                /\ KeysOf(c) \subseteq KeysFor(c)
                /\ ~credential[c].isEncryptionKeyLost
C3_Witness ==
    /\ ResyncDone
    /\ \E c \in last.note.marked : KeysFor(c) # {} /\ NumRows(c) = 1

\* C4: when resync() returns, no row joins a credential to a key that does not
\* decrypt it.
C4_NoStaleAssociation ==
    ResyncDone => \A c \in Creds : KeysOf(c) \subseteq KeysFor(c)

\* C5: a resync() that follows a resync() at once leaves every row of
\* encryption_credential and every isEncryptionKeyLost as it found them.
C5_ResyncIdempotent ==
    (ResyncDone /\ last.note.again) =>
        <<encryptionCredential, credential>> = last.note.pre
C5_Witness ==
    /\ ResyncDone
    /\ last.note.again
    /\ \E c \in Creds : NumRows(c) = 1 /\ ~credential[c].isEncryptionKeyLost
    /\ \E c \in Creds : NumRows(c) = 0 /\ credential[c].isEncryptionKeyLost

\* C6: a generate() that follows a generate() with the same override and key file
\* adds no row to the encryption table and returns the key get() returns.
C6_GenerateIdempotent ==
    (last.op = "generate" /\ last.note.repeat) =>
        /\ last.note.added = 0
        /\ last.err = NoError
        /\ last.ret = get(encryption, scan, encryptionCredential, credential, None).ret
C6_Witness ==
    /\ last.op = "generate"
    /\ last.note.repeat
    /\ last.arg[1] # Empty /\ last.arg[2] # Empty /\ last.arg[1] # last.arg[2]
    /\ {last.arg[1], last.arg[2]} \subseteq {r.encryptionKey : r \in Range(encryption)}

\* C7: after generate() the encryption table is not empty; when it was empty and
\* neither the override nor the key file gave a key, generate() created one row,
\* with random key bytes, and returned it.
C7_AtLeastOneKey ==
    last.op = "generate" =>
        /\ last.err = NoError
        /\ Len(encryption) >= 1
        /\ (last.arg = <<Empty, Empty>> /\ Len(encryption) = last.note.added) =>
               /\ Len(encryption) = 1
               /\ encryption[1].encryptionKey \in RandomKeys
               /\ last.ret = encryption[1]
C7_Witness ==
    /\ last.op = "generate"
    /\ last.arg = <<Empty, Empty>>
    /\ Len(encryption) = 1
    /\ last.note.added = 1

\* The call that returned is decrypt(credential, key) on the ciphertext of the
\* encrypt() call before it.
RoundTrip == last.op = "decrypt" /\ last.note # None
\* The key the decrypt call was given is the row encrypt() returned.
SameKey == last.arg.encryption.id = last.note.encryption.id
\* C8 as stated: decrypt of what encrypt(P) returned gives P under the key encrypt
\* returned and fails under every other key.
C8_RoundTrip ==
    RoundTrip =>
        /\ SameKey => last.err = NoError /\ last.ret.plainDataObj = last.note.plainDataObj
        /\ ~SameKey => last.err # NoError
\* The values JSON has a text for.
JsonValues == {"x", "null"}
\* C8 as amended: for a plaintext whose values JSON has a text for, decrypt gives P
\* under the key encrypt returned; under a key with other key bytes decrypt fails.
C8_RoundTripJson ==
    RoundTrip =>
        /\ (SameKey /\ \A pv \in last.note.plainDataObj : pv[2] \in JsonValues) =>
               last.err = NoError /\ last.ret.plainDataObj = last.note.plainDataObj
        /\ last.arg.encryption.encryptionKey # last.note.encryption.encryptionKey =>
               last.err = Wrap("decrypt", ErrCipher)
C8_Witness ==
    /\ RoundTrip
    /\ SameKey
    /\ last.err = NoError
    /\ last.ret.plainDataObj = {<<"a", "x">>}

\* The greatest updatedDate of the stored keys.
IsNewest(id) == \A r \in Range(encryption) : r.updatedDate <= encryption[id].updatedDate
\* C9: get() returns a key with the greatest updatedDate, and fails with 'No
\* encryption key available' exactly when the encryption table is empty.
C9_GetLatest ==
    (last.op = "get" /\ last.arg = None) =>
        /\ Len(encryption) = 0 <=> last.err = Wrap("get", ErrNoKey)
        /\ Len(encryption) # 0 => last.err = NoError /\ IsNewest(last.ret.id)
C9_Witness ==
    /\ last.op = "get" /\ last.arg = None
    /\ Len(encryption) = 2
    /\ encryption[2].updatedDate > encryption[1].updatedDate
    /\ scan = <<1, 2>>
    /\ last.ret.id = 2

\* C10: get(credential) gives the 'encryption is lost' error when no key has a row
\* with the credential, the key when one has, the 'multiple encryptions' error and
\* no key when several have; decrypt(credential) fails whenever get(credential) does.
C10_GetByCredential ==
    /\ (last.op = "get" /\ last.arg # None) =>
           LET keys == KeysOf(last.arg.id)
           IN  /\ Cardinality(keys) = 0 => last.err = Wrap("get", ErrLost) /\ last.ret = None
               /\ Cardinality(keys) = 1 => last.err = NoError /\ last.ret \in keys
               /\ Cardinality(keys) > 1 => last.err = Wrap("get", ErrMultiple) /\ last.ret = None
    /\ (last.op = "decrypt" /\ last.arg.encryption = None) =>
           LET keys == KeysOf(last.arg.credential.id)
           IN  /\ Cardinality(keys) = 0 => last.err = Wrap("decrypt", Wrap("get", ErrLost))
               /\ Cardinality(keys) > 1 => last.err = Wrap("decrypt", Wrap("get", ErrMultiple))
               /\ Cardinality(keys) = 1 =>
                      last.err \in {NoError, Wrap("decrypt", ErrCipher)}
    /\ Cardinality({ErrLost, ErrMultiple, ErrNoKey}) = 3
C10_Witness ==
    /\ last.op = "get" /\ last.arg # None
    /\ Cardinality(KeysOf(last.arg.id)) = 2
    /\ last.err = Wrap("get", ErrMultiple)

\* C11: encrypt(P) returns the key get() returns in the same state, a key with the
\* greatest updatedDate, and a ciphertext made with the key bytes of that key; it
\* fails exactly when the encryption table is empty.
C11_EncryptLatest ==
    last.op = "encrypt" =>
        /\ Len(encryption) = 0 <=> last.err # NoError
        /\ Len(encryption) = 0 => last.err = Wrap("encrypt", Wrap("get", ErrNoKey))
        /\ Len(encryption) # 0 =>
               /\ last.ret.encryption =
                      get(encryption, scan, encryptionCredential, credential, None).ret
               /\ IsNewest(last.ret.encryption.id)
               /\ last.ret.encryptedData.key = encryption[last.ret.encryption.id].encryptionKey
C11_Witness ==
    /\ last.op = "encrypt"
    /\ last.err = NoError
    /\ Len(encryption) = 2
    /\ encryption[1].encryptionKey # encryption[2].encryptionKey
    /\ last.ret.encryption.id = 2
    /\ last.ret.encryptedData.key = encryption[2].encryptionKey

\* C12: create() without a name fails with 'Please provide a name for this
\* encryption.' and leaves the encryption table as it was; create() with a name and
\* no key bytes adds one row, whose key bytes are not empty; no stored row has empty
\* key bytes.
C12_CreateContract ==
    /\ [](\A r \in Range(encryption) : r.encryptionKey # Empty)
    /\ [][last'.op = "create" =>
            /\ last'.arg.name = Empty =>
                   /\ last'.err = Wrap("create", ErrNoName)
                   /\ encryption' = encryption
            /\ (last'.arg.name # Empty /\ last'.arg.encryptionKey = Empty) =>
                   /\ last'.err = NoError
                   /\ Len(encryption') = Len(encryption) + 1
                   /\ encryption'[Len(encryption')].encryptionKey # Empty
                   /\ \A i \in 1..Len(encryption) : encryption'[i] = encryption[i]]_vars
C12_Witness ==
    /\ last.op = "create"
    /\ last.arg = [name |-> "key", encryptionKey |-> Empty]
    /\ last.err = NoError
    /\ Len(encryption) = 2
    /\ encryption[2].encryptionKey \in RandomKeys

\* C13: under init() resync() starts once generate() has returned and reads an
\* encryption table that is not empty; when generate() fails resync() is not called;
\* and the error of either step leaves init() wrapped as an init error.
C13_InitOrder ==
    last.op = "init" =>
        /\ last.note.generate # NoError =>
               /\ last.err = Wrap("init", last.note.generate)
               /\ last.ret = "failed"
               /\ last.note.seen = -1
               /\ Quiet
        /\ last.note.resync # NoError => last.err = Wrap("init", last.note.resync)
        /\ last.ret = "failed" <=> last.err # NoError
        /\ last.note.generate = NoError => Len(encryption) >= 1
        /\ last.ret \in {"running", "done"} => last.note.seen >= 1
        /\ \A p \in Procs :
               rs[p].pc \notin {"idle", "initResync"} => Len(rs[p].allEncryption) >= 1
C13_Witness ==
    /\ last.op = "init"
    /\ last.ret = "done"
    /\ last.note.before = 0
    /\ last.note.seen = 1
    /\ \E c \in Creds : NumRows(c) = 1

\* The tables the running resync() found were in a steady state: every credential
\* had either one row, naming a key that decrypts it, and its flag false, or no row,
\* its flag true and no stored key that decrypts it.
SteadyBefore ==
    LET ec == last.note.pre[1]
        cr == last.note.pre[2]
    IN  \A c \in Creds :
            \/ /\ ~cr[c].isEncryptionKeyLost
               /\ findByCredentialId(ec, c) = 1
               /\ \E r \in Decrypting(encryption, cr, c) : ec[<<r.id, c>>] = 1
            \/ /\ cr[c].isEncryptionKeyLost
               /\ findByCredentialId(ec, c) = 0
               /\ Decrypting(encryption, cr, c) = {}
\* C14: in every state of a resync() that started from a steady state, whether it
\* is stopped there or not, a credential whose isEncryptionKeyLost is true decrypts
\* under no stored key and a credential whose isEncryptionKeyLost is false has
\* exactly one row.
C14_InterruptionSafe ==
    (last.op = "resync" /\ SteadyBefore) =>
        \A c \in Creds :
            /\ credential[c].isEncryptionKeyLost => Decrypting(encryption, credential, c) = {}
            /\ ~credential[c].isEncryptionKeyLost => NumRows(c) = 1

\* Every resync() call has returned and no other call was made since.
AllDone == Quiet /\ last.op = "resync"
\* No credential had more than one row when the resync() calls started.
OneRowBefore == \A c \in Creds : findByCredentialId(last.note.pre[1], c) <= 1
\* A credential that a stored key decrypts has several rows, no row, or its
\* isEncryptionKeyLost true.
Unsafe(c) ==
    /\ KeysFor(c) # {}
    /\ NumRows(c) # 1 \/ credential[c].isEncryptionKeyLost
\* C15: resync() calls that overlap reach a state no resync() call that runs alone
\* reaches from tables with at most one row for each credential: a credential that
\* a stored key decrypts ends with several rows, without a row or flagged lost only
\* when the calls overlapped.
C15_ConcurrentUnsafe ==
    (AllDone /\ OneRowBefore /\ \E c \in Creds : Unsafe(c)) => last.note.overlap
C15_Witness ==
    /\ AllDone
    /\ last.note.overlap
    /\ \A c \in Creds : findByCredentialId(last.note.pre[1], c) = 0
    /\ \E c \in Creds : KeysFor(c) # {} /\ NumRows(c) = 2

\* C16: when resync() returns, for every credential isEncryptionKeyLost is true
\* exactly when the credential has no row, and exactly when no stored key decrypts
\* it, whatever the flags, the rows and the keys were before, no key included.
C16_FlagAgrees ==
    ResyncDone =>
        \A c \in Creds :
            /\ credential[c].isEncryptionKeyLost <=> NumRows(c) = 0
            /\ credential[c].isEncryptionKeyLost <=> Decrypting(encryption, credential, c) = {}

\* The first key in the store's order that decrypts the credential.
FirstMatch(c) ==
    CHOOSE r \in Decrypting(encryption, credential, c) :
        \A q \in Decrypting(encryption, credential, c) :
            ScanPos(scan, r.id) <= ScanPos(scan, q.id)
\* C17: when resync() returns, a credential that had at most one row before and
\* that some stored key decrypts has its row with the first key in the store's
\* order that decrypts it, whatever keys failed before that one and whatever
\* credentials came before it; while resync() works on a credential, no key it has
\* tried already on that credential decrypts it.
C17_FirstMatchWins ==
    /\ ResyncDone =>
           \A c \in Creds :
               (findByCredentialId(last.note.pre[1], c) <= 1
                    /\ Decrypting(encryption, credential, c) # {}) =>
                   /\ KeysOf(c) = {FirstMatch(c)}
                   /\ NumRows(c) = 1
    /\ \A p \in Procs :
           rs[p].pc \in {"trial", "write", "clearLost", "delete"} =>
               \A j \in 1..(rs[p].ki - 1) :
                   decrypt(encryption, scan, encryptionCredential, credential,
                           rs[p].allCredential[rs[p].ci], rs[p].allEncryption[j]).err # NoError
C17_Witness ==
    /\ ResyncDone
    /\ Len(encryption) = 2
    /\ \E c \in Creds :
          /\ Cardinality(Decrypting(encryption, credential, c)) = 2
          /\ last.note.pre[1][<<scan[2], c>>] = 1
          /\ last.note.pre[1][<<scan[1], c>>] = 0
          /\ KeysOf(c) = {encryption[scan[1]]}

\* The step is a store operation of resync(), called by init() or by its own.
ResyncStepTaken == \E p \in Procs : rs'[p] # rs[p] /\ rs'[p].pc # "initResync"
\* C18: a step of resync() leaves the encryption table and the encryptedData of
\* every credential as they were, and a step of any operation leaves every stored
\* key in the table with its id, its name and its key bytes.
C18_Frame ==
    [][/\ Len(encryption') >= Len(encryption)
       /\ \A i \in 1..Len(encryption) :
              /\ encryption'[i].id = encryption[i].id
              /\ encryption'[i].name = encryption[i].name
              /\ encryption'[i].encryptionKey = encryption[i].encryptionKey
       /\ ResyncStepTaken =>
              /\ encryption' = encryption
              /\ DOMAIN credential' = DOMAIN credential
              /\ \A c \in Creds :
                     credential'[c].encryptedData = credential[c].encryptedData]_vars
C18_Witness ==
    /\ ResyncDone
    /\ Len(encryption) = 2
    /\ encryptionCredential # last.note.pre[1]
    /\ credential # last.note.pre[2]

\* The names of the rows are "1" to "n" in the order the rows were stored.
Numbered(rows) == \A i \in 1..Len(rows) : rows[i].name = ToString(i)
\* C19: every row generate() adds has as name the decimal string of the number of
\* rows stored just before it plus one, so that generate() calls that start on an
\* empty table, or on a table whose names are "1" to "n", leave the names "1" to
\* "n" with no name twice.
C19_GenerateNames ==
    [][last'.op = "generate" =>
           /\ \A i \in (Len(encryption) + 1)..Len(encryption') :
                  encryption'[i].name = ToString(i)
           /\ Numbered(encryption) =>
                  /\ Numbered(encryption')
                  /\ \A i, j \in 1..Len(encryption') :
                         i # j => encryption'[i].name # encryption'[j].name]_vars
C19_Witness ==
    /\ last.op = "generate"
    /\ last.note.added = 2
    /\ Len(encryption) = 2
    /\ encryption[1].name = "1"
    /\ encryption[2].name = "2"

\* No two rows have the same key bytes.
NoDuplicate(rows) ==
    \A i, j \in 1..Len(rows) : i # j => rows[i].encryptionKey # rows[j].encryptionKey
\* C20: generate() on a table without two rows of equal key bytes leaves a table
\* without two rows of equal key bytes, whatever the override and the key file hold.
C20_GenerateNoDuplicate ==
    [][(last'.op = "generate" /\ NoDuplicate(encryption)) => NoDuplicate(encryption')]_vars

\* C21: from an empty encryption_credential table, with generate(), create() and
\* resync() calls that do not overlap, resync() calls stopped partway and
\* credentials saved between the calls, every credential has at most one row in
\* every state, and get(credential) does not give the 'multiple encryptions' error.
C21_SingleRow ==
    \A c \in Creds :
        /\ NumRows(c) <= 1
        /\ get(encryption, scan, encryptionCredential, credential,
               Entity(credential, c)).err # Wrap("get", ErrMultiple)
C21_Witness ==
    /\ last.op = "resync"
    /\ last.ret = "stopped"
    /\ \E p \in Procs : rs[p].pc = "idle"
    /\ \E c \in Creds :
          /\ NumRows(c) = 1
          /\ KeysFor(c) # {}
          /\ KeysOf(c) \cap KeysFor(c) = {}
    /\ \E c \in Creds : NumRows(c) = 0 /\ credential[c].isEncryptionKeyLost

====
